---- MODULE Spec2Model ----
(***************************************************************************)
(* A model of lexpr's cons cell (lexpr/src/cons.rs): the two-slot cell,    *)
(* its accessors and setters, the borrowing iterator Iter, the owning      *)
(* iterator IntoIter and the three vector conversions.                     *)
(*                                                                         *)
(* Rust's Box<(Value, Value)> is modelled as a heap of cells addressed by  *)
(* identifiers, so that ownership (who holds the one handle of a cell),    *)
(* aliasing and cycles are things the model can get wrong and a check can  *)
(* catch.  A Value is an atom (Null, a number) or the handle of a cell.    *)
(***************************************************************************)
EXTENDS Integers, Sequences, FiniteSets, TLC

\* Number of cells the heap can hold at once.
MaxCells == 2

Cells == 1..MaxCells

\* The client's variables that own values.
Locals == {"x", "y"}

\* The client's borrowing iterators: j's scope is nested in i's.
Iters == {"i", "j"}

---------------------------------------------------------------------------
\* Values

Null == [tag |-> "Null", n |-> 0]

Number(k) == [tag |-> "Number", n |-> k]

ConsV(c) == [tag |-> "Cons", n |-> c]

\* A variable that holds nothing: never initialised, or moved out of.
Moved == [tag |-> "Moved", n |-> 0]

\* The values that are not cells: the empty list and one other.
Atoms == {Null, Number(1)}

is_cons(v) == v.tag = "Cons"

\* Option<T>
None == [some |-> FALSE, val |-> Null]

Some(v) == [some |-> TRUE, val |-> v]

\* A heap slot without a cell in it.
FreeCell == [live |-> FALSE, car |-> Null, cdr |-> Null]

VARIABLES
    heap,      \* Cells -> [live, car, cdr]: the boxes
    locals,    \* Locals -> Value or Moved: the client's owned values
    iters,     \* Iters -> the state of each borrowing iterator
    into,      \* the state of the owning iterator
    ret,       \* the result the client holds of into_vec or to_ref_vec
    hist,      \* per cell: the values it was constructed with and last written
    last       \* the last call and what it returned

vars == <<heap, locals, iters, into, ret, hist, last>>

---------------------------------------------------------------------------
\* Heap helpers

car(h, c) == h[c].car

cdr(h, c) == h[c].cdr

as_pair(h, c) == <<h[c].car, h[c].cdr>>

\* The cells a set of cells owns directly, through either slot.
Children(h, S) ==
    {h[c].car.n : c \in {d \in S : is_cons(h[d].car)}}
        \cup {h[c].cdr.n : c \in {d \in S : is_cons(h[d].cdr)}}

RECURSIVE Closure(_, _, _)
Closure(h, S, k) ==
    IF k = 0 THEN S ELSE Closure(h, S \cup Children(h, S), k - 1)

\* Every cell owned, directly or not, by value v.
Reach(h, v) == IF is_cons(v) THEN Closure(h, {v.n}, MaxCells) ELSE {}

\* Dropping value v: its box and every box below it are deallocated.
Drop(h, v) == [c \in Cells |-> IF c \in Reach(h, v) THEN FreeCell ELSE h[c]]

FreeCells(h) == {c \in Cells : ~h[c].live}

\* Box::new: a cell that is not in use.
Alloc(h) == CHOOSE c \in FreeCells(h) : \A d \in FreeCells(h) : c <= d

\* Value::clone (derived): a deep copy.  A copy shares nothing with the heap
\* it was taken from, so it is kept as a term: <<"Cons", car, cdr>> or an atom.
RECURSIVE Clone(_, _)
Clone(h, v) ==
    IF is_cons(v)
    THEN <<"Cons", Clone(h, h[v.n].car), Clone(h, h[v.n].cdr)>>
    ELSE <<v.tag, v.n>>

\* A shared reference to one slot of a cell, and the value it points at.
RefCar(c) == [cell |-> c, slot |-> "car"]

RefCdr(c) == [cell |-> c, slot |-> "cdr"]

Deref(h, r) == IF r.slot = "car" THEN h[r.cell].car ELSE h[r.cell].cdr

---------------------------------------------------------------------------
\* Cons: construction, setters, into_pair

\* Cons::new(car, cdr): a fresh box holding the two values.
new(h, a, d) ==
    [h EXCEPT ![Alloc(h)] = [live |-> TRUE, car |-> a, cdr |-> d]]

\* self.inner.0 = car.into(): the old value is dropped, the new one stored.
set_car(h, c, v) == [Drop(h, h[c].car) EXCEPT ![c].car = v]

\* set_cdr as it would be with the wrong field index.
set_cdrWrongSlot(h, c, v) == [Drop(h, h[c].car) EXCEPT ![c].car = v]

\* self.inner.1 = cdr.into()
set_cdr(h, c, v) == [Drop(h, h[c].cdr) EXCEPT ![c].cdr = v]

\* into_pair as it would be with the two fields in the wrong order.
into_pairSwapped(h, c) ==
    [heap |-> [h EXCEPT ![c] = FreeCell], pair |-> <<h[c].cdr, h[c].car>>]

\* (self.inner.0, self.inner.1): the box is gone, its two values move out.
into_pair(h, c) ==
    [heap |-> [h EXCEPT ![c] = FreeCell], pair |-> <<h[c].car, h[c].cdr>>]

---------------------------------------------------------------------------
\* Iter: the borrowing iterator

\* iter as it would be if it started at the cell after self.
iterFromCdr(h, c) == IF is_cons(h[c].cdr) THEN Some(h[c].cdr) ELSE None

\* Cons::iter: Iter { cursor: Some(self) }
iter(h, c) == Some(ConsV(c))

\* Iter::next as it would be if it followed car instead of cdr.
IterNextCar(h, cur) ==
    IF cur.some
    THEN [cursor |-> IF h[cur.val.n].car.tag = "Cons"
                     THEN Some(h[cur.val.n].car)
                     ELSE None,
          item |-> Some(cur.val)]
    ELSE [cursor |-> None, item |-> None]

\* Iter::next as it would be without `_ => self.cursor = None`.
IterNextStuck(h, cur) ==
    IF cur.some
    THEN [cursor |-> IF h[cur.val.n].cdr.tag = "Cons"
                     THEN Some(h[cur.val.n].cdr)
                     ELSE cur,
          item |-> Some(cur.val)]
    ELSE [cursor |-> None, item |-> None]

\* Iter::next on cursor cur: the new cursor and the item returned.
IterNext(h, cur) ==
    IF cur.some
    THEN [cursor |-> IF h[cur.val.n].cdr.tag = "Cons"
                     THEN Some(h[cur.val.n].cdr)
                     ELSE None,
          item |-> Some(cur.val)]
    ELSE [cursor |-> None, item |-> None]

---------------------------------------------------------------------------
\* IntoIter: the owning iterator

\* <Cons as IntoIterator>::into_iter: IntoIter { cursor: Some(self) }
into_iter(h, c) == Some(ConsV(c))

\* The Item type (Value, Option<Value>).
Item(v, rest) == [car |-> v, rest |-> rest]

NoItem == [some |-> FALSE, val |-> Item(Null, None)]

\* IntoIter::next as it would be if it handed the tail out with every item.
IntoIterNextEager(h, cur) ==
    IF cur.some
    THEN LET p == into_pair(h, cur.val.n)
         IN  [heap |-> p.heap, cursor |-> None,
              item |-> Some(Item(p.pair[1], Some(p.pair[2])))]
    ELSE [heap |-> h, cursor |-> None, item |-> NoItem]

\* IntoIter::next as it would be if the last item came with None.
IntoIterNextNoRest(h, cur) ==
    IF cur.some
    THEN LET p == into_pair(h, cur.val.n)
         IN  IF p.pair[2].tag = "Cons"
             THEN [heap |-> p.heap, cursor |-> Some(p.pair[2]),
                   item |-> Some(Item(p.pair[1], None))]
             ELSE [heap |-> p.heap, cursor |-> None,
                   item |-> Some(Item(p.pair[1], None))]
    ELSE [heap |-> h, cursor |-> None, item |-> NoItem]

\* IntoIter::next as it would be without `self.cursor = Some(cell)`: the
\* tail cell goes out of scope at the end of the call.
IntoIterNextLosesTail(h, cur) ==
    IF cur.some
    THEN LET p == into_pair(h, cur.val.n)
         IN  IF p.pair[2].tag = "Cons"
             THEN [heap |-> Drop(p.heap, p.pair[2]), cursor |-> None,
                   item |-> Some(Item(p.pair[1], None))]
             ELSE [heap |-> p.heap, cursor |-> None,
                   item |-> Some(Item(p.pair[1], Some(p.pair[2])))]
    ELSE [heap |-> h, cursor |-> None, item |-> NoItem]

\* IntoIter::next on cursor cur: the heap, the new cursor, the item returned.
IntoIterNext(h, cur) ==
    IF cur.some
    THEN LET p == into_pair(h, cur.val.n)
         IN  IF p.pair[2].tag = "Cons"
             THEN [heap |-> p.heap, cursor |-> Some(p.pair[2]),
                   item |-> Some(Item(p.pair[1], None))]
             ELSE [heap |-> p.heap, cursor |-> None,
                   item |-> Some(Item(p.pair[1], Some(p.pair[2])))]
    ELSE [heap |-> h, cursor |-> None, item |-> NoItem]

\* Dropping an IntoIter drops the cell its cursor still owns.
DropCursor(h, cur) == IF cur.some THEN Drop(h, cur.val) ELSE h

---------------------------------------------------------------------------
\* The vector conversions.  Each is the for loop of the source driving the
\* iterator; ok = FALSE is the unreachable!() after the loop.

RECURSIVE IntoVecLoop(_, _, _)
IntoVecLoop(h, cur, vec) ==
    LET r == IntoIterNext(h, cur)
    IN  IF ~r.item.some
        THEN [heap |-> r.heap, ok |-> FALSE, vec |-> vec, rest |-> Null]
        ELSE IF r.item.val.rest.some
             THEN [heap |-> DropCursor(r.heap, r.cursor), ok |-> TRUE,
                   vec |-> Append(vec, r.item.val.car),
                   rest |-> r.item.val.rest.val]
             ELSE IntoVecLoop(r.heap, r.cursor, Append(vec, r.item.val.car))

into_vec(h, c) == IntoVecLoop(h, into_iter(h, c), <<>>)

\* to_vec as it would be if it returned Value::Null for the terminator.
RECURSIVE ToVecLoopNullRest(_, _, _)
ToVecLoopNullRest(h, cur, vec) ==
    LET r == IterNext(h, cur)
    IN  IF ~r.item.some
        THEN [ok |-> FALSE, vec |-> vec, rest |-> <<"Null", 0>>]
        ELSE LET pair == r.item.val.n
                 vec1 == Append(vec, Clone(h, car(h, pair)))
             IN  IF ~is_cons(cdr(h, pair))
                 THEN [ok |-> TRUE, vec |-> vec1, rest |-> <<"Null", 0>>]
                 ELSE ToVecLoopNullRest(h, r.cursor, vec1)

RECURSIVE ToVecLoop(_, _, _)
ToVecLoop(h, cur, vec) ==
    LET r == IterNext(h, cur)
    IN  IF ~r.item.some
        THEN [ok |-> FALSE, vec |-> vec, rest |-> <<"Null", 0>>]
        ELSE LET pair == r.item.val.n
                 vec1 == Append(vec, Clone(h, car(h, pair)))
             IN  IF ~is_cons(cdr(h, pair))
                 THEN [ok |-> TRUE, vec |-> vec1, rest |-> Clone(h, cdr(h, pair))]
                 ELSE ToVecLoop(h, r.cursor, vec1)

to_vec(h, c) == ToVecLoop(h, iter(h, c), <<>>)

RECURSIVE ToRefVecLoop(_, _, _)
ToRefVecLoop(h, cur, vec) ==
    LET r == IterNext(h, cur)
    IN  IF ~r.item.some
        THEN [ok |-> FALSE, vec |-> vec, rest |-> RefCdr(0)]
        ELSE LET pair == r.item.val.n
                 vec1 == Append(vec, RefCar(pair))
             IN  IF ~is_cons(cdr(h, pair))
                 THEN [ok |-> TRUE, vec |-> vec1, rest |-> RefCdr(pair)]
                 ELSE ToRefVecLoop(h, r.cursor, vec1)

to_ref_vec(h, c) == ToRefVecLoop(h, iter(h, c), <<>>)

---------------------------------------------------------------------------
\* The client: which values it may pass, and what is borrowed

NoIter == [active |-> FALSE, root |-> "", start |-> 0, cursor |-> None,
           out |-> <<>>]

NoInto == [active |-> FALSE, cursor |-> None, out |-> <<>>,
           cars |-> <<>>, term |-> Null]

NoRet == [kind |-> "none", root |-> "", vec |-> <<>>, rest |-> Null]

\* hist of a slot that holds no cell.
Blank == [car |-> Null, cdr |-> Null, chain |-> <<>>]

\* A local is borrowed while an Iter over it, or a to_ref_vec result, lives.
Borrowed(l) ==
    \/ \E i \in Iters : iters[i].active /\ iters[i].root = l
    \/ ret.kind = "refs" /\ ret.root = l

\* No traversal is open and no conversion result is held.
Quiet ==
    /\ \A i \in Iters : ~iters[i].active
    /\ ~into.active
    /\ ret.kind = "none"

\* A value the client can pass by ownership: a literal, or the content of a
\* local that is initialised and not borrowed.
Args ==
    {[v |-> a, from |-> "lit"] : a \in Atoms}
        \cup {[v |-> locals[l], from |-> l] :
                l \in {m \in Locals : locals[m] # Moved /\ ~Borrowed(m)}}

\* Passing an argument as it would be if the caller kept its handle.
TakeCopy(ls, a) == ls

\* Passing an argument by value moves it out of the local it came from.
Take(ls, a) == IF a.from = "lit" THEN ls ELSE [ls EXCEPT ![a.from] = Moved]

\* The cells the client can reach from local l (through car/cdr, as_cons).
Reachable(l) == Reach(heap, locals[l])

\* hist with the entries of deallocated cells erased.
Clean(hs, h) == [c \in Cells |-> IF h[c].live THEN hs[c] ELSE Blank]

\* The chain of a cell whose cdr is d, as the constructor calls built it.
ChainOf(hs, c, d) == <<c>> \o (IF is_cons(d) THEN hs[d.n].chain ELSE <<>>)

\* The position of cell c in sequence s (0 when absent).
Pos(s, c) ==
    IF \E k \in 1..Len(s) : s[k] = c
    THEN CHOOSE k \in 1..Len(s) : s[k] = c
    ELSE 0

\* hist after cell c's cdr is set to d: c's chain, and the chain of every
\* cell that has c on its chain, end with the new tail.
Relink(hs, c, d) ==
    [p \in Cells |->
        IF Pos(hs[p].chain, c) = 0
        THEN hs[p]
        ELSE [car |-> hs[p].car,
              cdr |-> IF p = c THEN d ELSE hs[p].cdr,
              chain |-> SubSeq(hs[p].chain, 1, Pos(hs[p].chain, c) - 1)
                            \o ChainOf(hs, c, d)]]

\* The list a cell stands for, from hist alone: its elements and terminator.
ListOf(hs, c) ==
    [vec |-> [k \in 1..Len(hs[c].chain) |-> hs[hs[c].chain[k]].car],
     rest |-> hs[hs[c].chain[Len(hs[c].chain)]].cdr]

\* The term a value stands for, from hist alone.
RECURSIVE TermOf(_, _)
TermOf(hs, v) ==
    IF is_cons(v)
    THEN <<"Cons", TermOf(hs, hs[v.n].car), TermOf(hs, hs[v.n].cdr)>>
    ELSE <<v.tag, v.n>>

\* The record of a call whose result no property reads.
Idle == [op |-> "other", cell |-> 0, arg |-> <<>>, res |-> <<>>, exp |-> <<>>]

Call(op, c, arg, res, exp) ==
    [op |-> op, cell |-> c, arg |-> arg, res |-> res, exp |-> exp]

---------------------------------------------------------------------------
Init ==
    /\ heap = [c \in Cells |-> FreeCell]
    /\ locals = [l \in Locals |-> Moved]
    /\ iters = [i \in Iters |-> NoIter]
    /\ into = NoInto
    /\ ret = NoRet
    /\ hist = [c \in Cells |-> Blank]
    /\ last = Idle

\* dst = Cons::new(a, d)
New(a, d, dst) ==
    /\ Quiet
    /\ FreeCells(heap) # {}
    /\ a.from = "lit" \/ a.from # d.from
    /\ Take(Take(locals, a), d)[dst] = Moved
    /\ heap' = new(heap, a.v, d.v)
    /\ locals' = [Take(Take(locals, a), d) EXCEPT ![dst] = ConsV(Alloc(heap))]
    /\ hist' = [hist EXCEPT ![Alloc(heap)] =
                    [car |-> a.v, cdr |-> d.v,
                     chain |-> ChainOf(hist, Alloc(heap), d.v)]]
    /\ last' = Call("new", Alloc(heap), <<a.v, d.v>>, <<>>, <<>>)
    /\ UNCHANGED <<iters, into, ret>>

\* cell c, reached from local l, gets set_car(a)
SetCar(l, c, a) ==
    /\ Quiet
    /\ ~Borrowed(l)
    /\ c \in Reachable(l)
    /\ a.from # l
    /\ heap' = set_car(heap, c, a.v)
    /\ locals' = Take(locals, a)
    /\ hist' = Clean([hist EXCEPT ![c].car = a.v], heap')
    /\ last' = Call("set_car", c, a.v, <<>>, <<>>)
    /\ UNCHANGED <<iters, into, ret>>

\* cell c, reached from local l, gets set_cdr(a)
SetCdr(l, c, a) ==
    /\ Quiet
    /\ ~Borrowed(l)
    /\ c \in Reachable(l)
    /\ a.from # l
    /\ heap' = set_cdr(heap, c, a.v)
    /\ locals' = Take(locals, a)
    /\ hist' = Clean(Relink(hist, c, a.v), heap')
    /\ last' = Call("set_cdr", c, a.v, <<>>, <<>>)
    /\ UNCHANGED <<iters, into, ret>>

\* (l, m) = l.into_pair()
IntoPair(l, m) ==
    /\ Quiet
    /\ ~Borrowed(l)
    /\ is_cons(locals[l])
    /\ m # l
    /\ locals[m] = Moved
    /\ heap' = into_pair(heap, locals[l].n).heap
    /\ locals' = [locals EXCEPT ![l] = into_pair(heap, locals[l].n).pair[1],
                                ![m] = into_pair(heap, locals[l].n).pair[2]]
    /\ hist' = Clean(hist, heap')
    /\ last' = Call("into_pair", locals[l].n, <<>>,
                    into_pair(heap, locals[l].n).pair,
                    <<hist[locals[l].n].car, hist[locals[l].n].cdr>>)
    /\ UNCHANGED <<iters, into, ret>>

\* local l goes out of scope
DropLocal(l) ==
    /\ Quiet
    /\ ~Borrowed(l)
    /\ locals[l] # Moved
    /\ heap' = Drop(heap, locals[l])
    /\ locals' = [locals EXCEPT ![l] = Moved]
    /\ hist' = Clean(hist, heap')
    /\ last' = Idle
    /\ UNCHANGED <<iters, into, ret>>

\* i = c.iter(), c reached from local l
IterStart(i, l, c) ==
    /\ ~iters[i].active
    /\ i = "j" => iters["i"].active
    /\ ~into.active
    /\ ret.kind = "none"
    /\ c \in Reachable(l)
    /\ iters' = [iters EXCEPT ![i] =
                    [active |-> TRUE, root |-> l, start |-> c,
                     cursor |-> iter(heap, c), out |-> <<>>]]
    /\ last' = Idle
    /\ UNCHANGED <<heap, locals, into, ret, hist>>

\* i.next()
IterNextStep(i) ==
    /\ iters[i].active
    /\ iters' = [iters EXCEPT
                    ![i].cursor = IterNext(heap, iters[i].cursor).cursor,
                    ![i].out = IF IterNext(heap, iters[i].cursor).item.some
                               THEN Append(@, IterNext(heap, iters[i].cursor).item.val.n)
                               ELSE @]
    /\ last' = IF IterNext(heap, iters[i].cursor).item.some
               THEN Idle
               ELSE Call("iter_next", 0, <<>>, <<"None">>, <<>>)
    /\ UNCHANGED <<heap, locals, into, ret, hist>>

\* iterator i goes out of scope
IterDrop(i) ==
    /\ iters[i].active
    /\ i = "i" => ~iters["j"].active
    /\ iters' = [iters EXCEPT ![i] = NoIter]
    /\ last' = Idle
    /\ UNCHANGED <<heap, locals, into, ret, hist>>

\* into = l.into_iter()
IntoIterStart(l) ==
    /\ Quiet
    /\ ~Borrowed(l)
    /\ is_cons(locals[l])
    /\ into' = [active |-> TRUE, cursor |-> into_iter(heap, locals[l].n),
                out |-> <<>>,
                cars |-> ListOf(hist, locals[l].n).vec,
                term |-> ListOf(hist, locals[l].n).rest]
    /\ locals' = [locals EXCEPT ![l] = Moved]
    /\ last' = Idle
    /\ UNCHANGED <<heap, iters, ret, hist>>

\* into.next()
IntoIterNextStep ==
    /\ into.active
    /\ heap' = IntoIterNext(heap, into.cursor).heap
    /\ into' = [into EXCEPT
                    !.cursor = IntoIterNext(heap, into.cursor).cursor,
                    !.out = IF IntoIterNext(heap, into.cursor).item.some
                            THEN Append(@, IntoIterNext(heap, into.cursor).item.val)
                            ELSE @]
    /\ hist' = Clean(hist, heap')
    /\ last' = Call("into_next", 0, <<>>,
                    IntoIterNext(heap, into.cursor).item, <<>>)
    /\ UNCHANGED <<locals, iters, ret>>

\* The values a sequence of yielded items owns.
RECURSIVE DropItems(_, _)
DropItems(h, items) ==
    IF items = <<>>
    THEN h
    ELSE DropItems(Drop(Drop(h, Head(items).car), Head(items).rest.val),
                   Tail(items))

\* the IntoIter and the items the consumer took from it go out of scope
IntoIterDrop ==
    /\ into.active
    /\ heap' = DropItems(DropCursor(heap, into.cursor), into.out)
    /\ into' = NoInto
    /\ hist' = Clean(hist, heap')
    /\ last' = Idle
    /\ UNCHANGED <<locals, iters, ret>>

\* ret = l.into_vec(); what l.to_vec() returns is noted first
IntoVec(l) ==
    /\ Quiet
    /\ ~Borrowed(l)
    /\ is_cons(locals[l])
    /\ heap' = into_vec(heap, locals[l].n).heap
    /\ locals' = [locals EXCEPT ![l] = Moved]
    /\ ret' = IF into_vec(heap, locals[l].n).ok
              THEN [kind |-> "owned", root |-> "",
                    vec |-> into_vec(heap, locals[l].n).vec,
                    rest |-> into_vec(heap, locals[l].n).rest]
              ELSE NoRet
    /\ hist' = Clean(hist, heap')
    /\ last' = Call("into_vec", locals[l].n, to_vec(heap, locals[l].n),
                    [ok |-> into_vec(heap, locals[l].n).ok,
                     vec |-> into_vec(heap, locals[l].n).vec,
                     rest |-> into_vec(heap, locals[l].n).rest],
                    ListOf(hist, locals[l].n))
    /\ UNCHANGED <<iters, into>>

\* c.to_vec(), c reached from local l; the clones are the consumer's
ToVec(l, c) ==
    /\ Quiet
    /\ c \in Reachable(l)
    /\ last' = Call("to_vec", c,
                    IF last.op = "to_vec" /\ last.cell = c
                    THEN <<last.res>> ELSE <<>>,
                    to_vec(heap, c),
                    [vec |-> [k \in 1..Len(ListOf(hist, c).vec) |->
                                TermOf(hist, ListOf(hist, c).vec[k])],
                     rest |-> TermOf(hist, ListOf(hist, c).rest)])
    /\ UNCHANGED <<heap, locals, iters, into, ret, hist>>

\* ret = c.to_ref_vec(), c reached from local l
ToRefVec(l, c) ==
    /\ Quiet
    /\ c \in Reachable(l)
    /\ ret' = IF to_ref_vec(heap, c).ok
              THEN [kind |-> "refs", root |-> l,
                    vec |-> to_ref_vec(heap, c).vec,
                    rest |-> to_ref_vec(heap, c).rest]
              ELSE NoRet
    /\ last' = Call("to_ref_vec", c, <<>>, to_ref_vec(heap, c), ListOf(hist, c))
    /\ UNCHANGED <<heap, locals, iters, into, hist>>

\* The values a vector of owned values holds.
RECURSIVE DropVec(_, _)
DropVec(h, vec) ==
    IF vec = <<>> THEN h ELSE DropVec(Drop(h, Head(vec)), Tail(vec))

\* the result of into_vec or to_ref_vec goes out of scope
DropRet ==
    /\ ret.kind # "none"
    /\ heap' = IF ret.kind = "owned"
               THEN Drop(DropVec(heap, ret.vec), ret.rest)
               ELSE heap
    /\ ret' = NoRet
    /\ hist' = Clean(hist, heap')
    /\ last' = Idle
    /\ UNCHANGED <<locals, iters, into>>

Next ==
    \/ \E a, d \in Args, dst \in Locals : New(a, d, dst)
    \/ \E l \in Locals, c \in Cells, a \in Args : SetCar(l, c, a)
    \/ \E l \in Locals, c \in Cells, a \in Args : SetCdr(l, c, a)
    \/ \E l, m \in Locals : IntoPair(l, m)
    \/ \E l \in Locals : DropLocal(l)
    \/ \E i \in Iters, l \in Locals, c \in Cells : IterStart(i, l, c)
    \/ \E i \in Iters : IterNextStep(i)
    \/ \E i \in Iters : IterDrop(i)
    \/ \E l \in Locals : IntoIterStart(l)
    \/ IntoIterNextStep
    \/ IntoIterDrop
    \/ \E l \in Locals : IntoVec(l)
    \/ \E l \in Locals, c \in Cells : ToVec(l, c)
    \/ \E l \in Locals, c \in Cells : ToRefVec(l, c)
    \/ DropRet

Spec == Init /\ [][Next]_vars

---------------------------------------------------------------------------
\* Ownership, as the properties below speak of it

\* The values held outside the heap: by the locals, by the IntoIter, by the
\* items the consumer took from it, and by an into_vec result.
ItemVals == {into.out[k].car : k \in 1..Len(into.out)}

RetVals ==
    IF ret.kind = "owned"
    THEN {ret.vec[k] : k \in 1..Len(ret.vec)} \cup {ret.rest}
    ELSE {}

RootVals ==
    {locals[l] : l \in Locals} \cup ItemVals \cup RetVals
        \cup (IF into.cursor.some THEN {into.cursor.val} ELSE {})

\* How many slots hold the handle of cell c.
RefCount(c) ==
    Cardinality({l \in Locals : locals[l] = ConsV(c)})
    + Cardinality({d \in Cells : heap[d].live /\ heap[d].car = ConsV(c)})
    + Cardinality({d \in Cells : heap[d].live /\ heap[d].cdr = ConsV(c)})
    + (IF into.cursor = Some(ConsV(c)) THEN 1 ELSE 0)
    + Cardinality({k \in 1..Len(into.out) : into.out[k].car = ConsV(c)})
    + (IF ret.kind = "owned"
       THEN Cardinality({k \in 1..Len(ret.vec) : ret.vec[k] = ConsV(c)})
            + (IF ret.rest = ConsV(c) THEN 1 ELSE 0)
       ELSE 0)

\* Following cdr links from cell c reaches a value that is not a cell within
\* k steps.
RECURSIVE EndsWithin(_, _)
EndsWithin(c, k) ==
    IF ~is_cons(heap[c].cdr)
    THEN TRUE
    ELSE IF k = 0 THEN FALSE ELSE EndsWithin(heap[c].cdr.n, k - 1)

LiveCells == {c \in Cells : heap[c].live}

IsPrefix(s, t) == Len(s) <= Len(t) /\ s = SubSeq(t, 1, Len(s))

Conversions == {"into_vec", "to_vec", "to_ref_vec"}

---------------------------------------------------------------------------
\* C1: each of into_vec, to_vec and to_ref_vec returns the elements of the
\* chain in head-to-tail order and its terminator, as the constructor and
\* setter calls made the list: n elements, n >= 1, the terminator Null iff
\* the list is proper; into_vec and to_ref_vec agree with to_vec on the same
\* cell (last.arg of an into_vec call is what to_vec returned just before).
C1_ConversionsReturnTheList ==
    /\ last.op = "into_vec" =>
        /\ last.res.vec = last.exp.vec
        /\ last.res.rest = last.exp.rest
        /\ [k \in 1..Len(last.res.vec) |-> Clone(heap, last.res.vec[k])]
                = last.arg.vec
        /\ Clone(heap, last.res.rest) = last.arg.rest
    /\ last.op = "to_vec" =>
        /\ last.res.vec = last.exp.vec
        /\ last.res.rest = last.exp.rest
    /\ last.op = "to_ref_vec" =>
        /\ [k \in 1..Len(last.res.vec) |-> Deref(heap, last.res.vec[k])]
                = last.exp.vec
        /\ Deref(heap, last.res.rest) = last.exp.rest
        /\ [k \in 1..Len(last.res.vec) |->
                Clone(heap, Deref(heap, last.res.vec[k]))]
                = to_vec(heap, last.cell).vec
        /\ Clone(heap, Deref(heap, last.res.rest))
                = to_vec(heap, last.cell).rest
    /\ last.op \in Conversions =>
        /\ Len(last.res.vec) >= 1
        /\ Len(last.res.vec) = Len(last.exp.vec)

C1_Witness ==
    /\ last.op = "into_vec"
    /\ Len(last.res.vec) = 2
    /\ last.res.vec[1] = Null
    /\ last.res.rest = Number(1)

---------------------------------------------------------------------------
\* C2: the owning iterator over a chain of N cells yields N items, the
\* first N-1 of them (car, None) and the N-th (car, Some(terminator)), the
\* terminator not a cell; it holds a cell exactly while fewer than N items
\* were yielded, and a call that returns None comes after all N.
C2_IntoIterYields ==
    into.active =>
        /\ Len(into.out) <= Len(into.cars)
        /\ \A k \in 1..Len(into.out) :
            into.out[k] = Item(into.cars[k],
                               IF k = Len(into.cars)
                               THEN Some(into.term) ELSE None)
        /\ ~is_cons(into.term)
        /\ into.cursor.some <=> Len(into.out) < Len(into.cars)
        /\ (last.op = "into_next" /\ ~last.res.some) =>
                Len(into.out) = Len(into.cars)

C2_Witness ==
    /\ into.active
    /\ Len(into.out) = 2
    /\ ~into.out[1].rest.some
    /\ into.out[2].rest = Some(Null)
    /\ last.op = "into_next"
    /\ ~last.res.some

---------------------------------------------------------------------------
\* C3: the borrowing iterator started at a cell yields the cells of its
\* chain in order, N of them; the k-th item's cdr is a cell iff k < N, and
\* the cursor is None exactly when all N were yielded.
C3_IterYields ==
    \A i \in Iters : iters[i].active =>
        /\ IsPrefix(iters[i].out, hist[iters[i].start].chain)
        /\ iters[i].cursor.some <=>
                Len(iters[i].out) < Len(hist[iters[i].start].chain)
        /\ iters[i].cursor.some =>
                iters[i].cursor.val =
                    ConsV(hist[iters[i].start].chain[Len(iters[i].out) + 1])
        /\ \A k \in 1..Len(iters[i].out) :
                is_cons(cdr(heap, iters[i].out[k]))
                    <=> k < Len(hist[iters[i].start].chain)

C3_Witness ==
    /\ iters["i"].active
    /\ Len(iters["i"].out) = 2
    /\ ~iters["i"].cursor.some
    /\ iters["j"].active
    /\ Len(hist[iters["j"].start].chain) = 1
    /\ iters["j"].out = <<iters["j"].start>>

---------------------------------------------------------------------------
\* C4: a cell just constructed by Cons::new(h, t) holds exactly h and t, as
\* as_pair, car and cdr read them, and into_pair returns exactly the two
\* values the cell was given (the same handles, nothing copied).
C4_NewIntoPairRoundTrip ==
    /\ last.op = "new" =>
        /\ heap[last.cell].live
        /\ as_pair(heap, last.cell) = last.arg
        /\ car(heap, last.cell) = last.arg[1]
        /\ cdr(heap, last.cell) = last.arg[2]
        /\ into_pair(heap, last.cell).pair = last.arg
    /\ last.op = "into_pair" =>
        /\ last.res = last.exp
        /\ ~heap[last.cell].live

C4_Witness ==
    /\ last.op = "into_pair"
    /\ is_cons(last.res[1])
    /\ last.res[2] = Number(1)

---------------------------------------------------------------------------
\* C5: each slot of each cell holds the value most recently given to it, by
\* the constructor or by a setter; set_car(v) makes car() return v, set_cdr(v)
\* makes cdr() return v, and after set_cdr with a value that is not a cell
\* the traversal from that cell yields one item.
C5_SlotsHoldLastWritten ==
    /\ \A c \in LiveCells :
        /\ car(heap, c) = hist[c].car
        /\ cdr(heap, c) = hist[c].cdr
    /\ last.op = "set_car" => car(heap, last.cell) = last.arg
    /\ last.op = "set_cdr" =>
        /\ cdr(heap, last.cell) = last.arg
        /\ ~is_cons(last.arg) =>
            /\ Len(to_vec(heap, last.cell).vec) = 1
            /\ IterNext(heap, iter(heap, last.cell)).item = Some(ConsV(last.cell))
            /\ ~IterNext(heap, iter(heap, last.cell)).cursor.some

C5_Witness ==
    /\ last.op = "set_cdr"
    /\ last.arg = Number(1)
    /\ is_cons(car(heap, last.cell))
    /\ \E l \in Locals : locals[l] = ConsV(last.cell)

---------------------------------------------------------------------------
\* C6: no conversion reaches the unreachable!() after its loop: the calls
\* that were made returned, and on every cell of every reachable heap each
\* conversion returns from inside its loop.
C6_UnreachableNotReached ==
    /\ last.op \in Conversions => last.res.ok
    /\ \A c \in LiveCells :
        /\ to_vec(heap, c).ok
        /\ to_ref_vec(heap, c).ok
        /\ into_vec(heap, c).ok

C6_Witness ==
    /\ last.op = "to_vec"
    /\ last.res.ok
    /\ Len(last.res.vec) = 2

---------------------------------------------------------------------------
\* C7: every live cell is held by exactly one slot and no free cell by any;
\* no cell is below itself; following cdr from any live cell reaches a value
\* that is not a cell.
C7_NoCyclesNoAliases ==
    /\ \A c \in Cells : RefCount(c) = IF heap[c].live THEN 1 ELSE 0
    /\ \A c \in LiveCells :
        /\ c \notin Closure(heap, Children(heap, {c}), MaxCells)
        /\ EndsWithin(c, MaxCells)

C7_Witness ==
    /\ last.op = "set_cdr"
    /\ is_cons(last.arg)
    /\ \A c \in Cells : heap[c].live

---------------------------------------------------------------------------
---------------------------------------------------------------------------
\* C9: an exhausted traversal stays exhausted: once the last cell was
\* yielded (for IntoIter, the item with Some(terminator)) the cursor is None,
\* and a later call to next yields nothing and leaves the cursor None.
C9_ExhaustedIsTerminal ==
    [][/\ \A i \in Iters :
            /\ (iters'[i].active /\ iters'[i].out # <<>>
                    /\ ~is_cons(cdr(heap', iters'[i].out[Len(iters'[i].out)])))
                => ~iters'[i].cursor.some
            /\ (iters[i].active /\ ~iters[i].cursor.some /\ iters'[i].active)
                => iters'[i] = iters[i]
       /\ (into'.active /\ into'.out # <<>>
                /\ into'.out[Len(into'.out)].rest.some)
            => ~into'.cursor.some
       /\ (into.active /\ ~into.cursor.some /\ into'.active)
            => /\ into' = into
               /\ last'.op = "into_next" => ~last'.res.some
      ]_vars

C9_Witness ==
    /\ last.op = "iter_next"
    /\ iters["i"].active
    /\ Len(iters["i"].out) = 2
    /\ ~iters["i"].cursor.some
    /\ ~iters["j"].active

---------------------------------------------------------------------------
\* C10: the borrowing traversal and the cloning conversions change no slot,
\* and a traversal started from the k-th cell of a chain yields the cells
\* k..N of it whatever another traversal of that chain has done; to_vec
\* called again on the same cell returns the same result.
C10_ReadOnlyRestartable ==
    /\ \A i, j \in Iters :
        (/\ iters[i].active
         /\ iters[j].active
         /\ Pos(hist[iters[i].start].chain, iters[j].start) > 0) =>
            /\ IsPrefix(iters[j].out,
                        SubSeq(hist[iters[i].start].chain,
                               Pos(hist[iters[i].start].chain, iters[j].start),
                               Len(hist[iters[i].start].chain)))
            /\ ~iters[j].cursor.some =>
                    iters[j].out =
                        SubSeq(hist[iters[i].start].chain,
                               Pos(hist[iters[i].start].chain, iters[j].start),
                               Len(hist[iters[i].start].chain))
    /\ \A l \in Locals : Borrowed(l) =>
        \A c \in Reachable(l) :
            /\ heap[c].live
            /\ car(heap, c) = hist[c].car
            /\ cdr(heap, c) = hist[c].cdr
    /\ (last.op = "to_vec" /\ last.arg # <<>>) => last.res = last.arg[1]

C10_Witness ==
    /\ iters["i"].active
    /\ iters["j"].active
    /\ Len(hist[iters["i"].start].chain) = 2
    /\ iters["j"].start = hist[iters["i"].start].chain[2]
    /\ ~iters["i"].cursor.some
    /\ iters["j"].out = <<iters["j"].start>>

====
